---- MODULE Spec2Model ----
(***************************************************************************)
(* A model of py_amqp_worker (src/src/main.rs): the bridge between the     *)
(* typed worker-event contract and a dynamically loaded Python module.     *)
(*                                                                         *)
(*   MarshalSpec  build_parameters applied to every bounded job            *)
(*   Spec         one call of PythonWorkerEvent::process, step by step     *)
(*   ConcSpec     several threads calling process, get_parameters and the  *)
(*                metadata readers under the interpreter lock              *)
(***************************************************************************)
EXTENDS Integers, Sequences, FiniteSets, TLC

\* ------------------------------------------------------------------ bounds
MaxParams == 2
MaxReports == 2
NumThreads == 2

\* ------------------------------------------------------------ Rust values
\* Option<T>: the payload is a sequence of string tokens.
None == [some |-> FALSE, v |-> <<>>]
Some(x) == [some |-> TRUE, v |-> x]

\* The six variants of amqp_worker::Parameter matched in build_parameters.
Kinds ==
  {"ArrayOfStringsParam", "BooleanParam", "CredentialParam",
   "IntegerParam", "RequirementParam", "StringParam"}

Ids == {"a", "b"}

\* A supplied value and a (different) default of each variant's payload type.
SuppliedOf(kind) ==
  CASE kind = "ArrayOfStringsParam" -> <<"v1", "v2">>
    [] kind = "BooleanParam" -> <<"true">>
    [] kind = "CredentialParam" -> <<"key_v">>
    [] kind = "IntegerParam" -> <<"7">>
    [] kind = "RequirementParam" -> <<"req_v">>
    [] kind = "StringParam" -> <<"v">>

DefaultOf(kind) ==
  CASE kind = "ArrayOfStringsParam" -> <<"d1">>
    [] kind = "BooleanParam" -> <<"false">>
    [] kind = "CredentialParam" -> <<"key_d">>
    [] kind = "IntegerParam" -> <<"3">>
    [] kind = "RequirementParam" -> <<"req_d">>
    [] kind = "StringParam" -> <<"d">>

ParameterSet ==
  UNION {
    {[kind |-> k, id |-> i, value |-> v, default |-> d] :
       i \in Ids,
       v \in {None, Some(SuppliedOf(k))},
       d \in {None, Some(DefaultOf(k))}} : k \in Kinds}

\* Job.parameters: an ordered sequence of at most MaxParams parameters.
Jobs == UNION {[1..n -> ParameterSet] : n \in 0..MaxParams}

\* ---------------------------------------------------------- Python values
\* The conversions set_item applies to its value argument.
PyList(v) == <<"list">> \o v
PyBool(v) == <<"bool">> \o v
PyInt(v) == <<"int">> \o v
PyStr(v) == <<"str">> \o v
PyNone == <<"NoneType">>

\* PyDict::new: no key has an entry.
EmptyDict == [k \in Ids |-> None]

\* PyDict::set_item(key, value): the entry of key is replaced.
SetItem(dict, key, obj) == [dict EXCEPT ![key] = Some(obj)]

\* Credential::request_value, when the collaborator answers: the secret of
\* the key it was asked for.
RequestValue(key) == <<"secret">> \o key

\* ------------------------------------------------------ build_parameters
\* Each arm of the match yields what it inserts under the parameter's id:
\* Some(object), or None when it inserts nothing.
ArrayOfStringsArm(p) ==
  IF p.value.some THEN Some(PyList(p.value.v))
  ELSE IF p.default.some THEN Some(PyList(p.default.v))
  ELSE None

BooleanArm(p) ==
  IF p.value.some THEN Some(PyBool(p.value.v))
  ELSE IF p.default.some THEN Some(PyBool(p.default.v))
  ELSE None

\* The arm with a fault: an unresolved credential is inserted as a null entry.
CredentialArmInsertsNull(p, resolved) ==
  LET credential_key ==
        IF p.value.some THEN p.value
        ELSE IF p.default.some THEN p.default
        ELSE None
  IN IF credential_key.some
     THEN IF resolved THEN Some(PyStr(RequestValue(credential_key.v)))
          ELSE Some(PyNone)
     ELSE None

\* resolved: whether credential.request_value(&job) returned Ok.
CredentialArm(p, resolved) ==
  LET credential_key ==
        IF p.value.some THEN p.value
        ELSE IF p.default.some THEN p.default
        ELSE None
  IN IF credential_key.some
     THEN IF resolved THEN Some(PyStr(RequestValue(credential_key.v)))
          ELSE None
     ELSE None

IntegerArm(p) ==
  IF p.value.some THEN Some(PyInt(p.value.v))
  ELSE IF p.default.some THEN Some(PyInt(p.default.v))
  ELSE None

\* The arm with a fault: a Requirement is marshalled like a String, or as null.
RequirementArmInserts(p) ==
  IF p.value.some THEN Some(PyStr(p.value.v))
  ELSE IF p.default.some THEN Some(PyStr(p.default.v))
  ELSE Some(PyNone)

RequirementArm(p) == None

\* The arm with a fault: the default is tested before the value.
StringArmDefaultFirst(p) ==
  IF p.default.some THEN Some(PyStr(p.default.v))
  ELSE IF p.value.some THEN Some(PyStr(p.value.v))
  ELSE None

StringArm(p) ==
  IF p.value.some THEN Some(PyStr(p.value.v))
  ELSE IF p.default.some THEN Some(PyStr(p.default.v))
  ELSE None

MatchParameter(p, resolved) ==
  CASE p.kind = "ArrayOfStringsParam" -> ArrayOfStringsArm(p)
    [] p.kind = "BooleanParam" -> BooleanArm(p)
    [] p.kind = "CredentialParam" -> CredentialArm(p, resolved)
    [] p.kind = "IntegerParam" -> IntegerArm(p)
    [] p.kind = "RequirementParam" -> RequirementArm(p)
    [] p.kind = "StringParam" -> StringArm(p)

\* The error set_item returns when the engine refuses an insertion.
EngineError == [name |-> "TypeError", tb |-> None, reprRaises |-> FALSE]
NoError == [name |-> "", tb |-> None, reprRaises |-> FALSE]

\* The loop over job.parameters from parameter i on. resolved[i] is the
\* answer of the credential collaborator for parameter i; failAt is the
\* parameter whose set_item fails (0: none), where `?` returns the error.
RECURSIVE BuildFrom(_, _, _, _, _)
BuildFrom(params, i, resolved, failAt, dict) ==
  IF i > Len(params) THEN [ok |-> TRUE, error |-> NoError, dict |-> dict]
  ELSE LET ins == MatchParameter(params[i], resolved[i])
       IN IF ins.some
          THEN IF i = failAt
               THEN [ok |-> FALSE, error |-> EngineError, dict |-> dict]
               ELSE BuildFrom(params, i + 1, resolved, failAt,
                              SetItem(dict, params[i].id, ins.v))
          ELSE BuildFrom(params, i + 1, resolved, failAt, dict)

build_parameters(params, resolved, failAt, list_of_parameters) ==
  BuildFrom(params, 1, resolved, failAt, list_of_parameters)

\* Whether parameter p asks the credential collaborator for a value.
AsksCredential(p) ==
  p.kind = "CredentialParam" /\ (p.value.some \/ p.default.some)

\* The answers of the environment during one run of build_parameters over
\* params: one per credential request, and at most one failing insertion.
Oracles(params) ==
  {o \in [resolved : [1..Len(params) -> BOOLEAN], failAt : 0..Len(params)] :
     /\ \A i \in 1..Len(params) :
          ~AsksCredential(params[i]) => o.resolved[i]
     /\ o.failAt # 0 =>
          MatchParameter(params[o.failAt], o.resolved[o.failAt]).some}

NoOracle == [resolved |-> <<>>, failAt |-> 0]


\* ------------------------------------------------------------------ state
VARIABLES
  pc,          \* position of the call of process (or of build_parameters)
  contents,    \* what read_python_file returned
  channel,     \* process's channel argument: Option<&Channel>
  job,         \* job.parameters
  oracle,      \* the environment's answers during build_parameters
  dict,        \* list_of_parameters
  built,       \* build_parameters's result: "none", "Ok" or "Err"
  plan0,       \* what the script's process will do, as written
  plan,        \* what it will do, given what its calls raised into it
  nReports,    \* calls of publish_job_progression made by the script
  lastReport,  \* the last of them: argument, channel outcome, what it gave
  argRaised,   \* a report was refused for its argument (not a u8)
  jobResult,   \* the JobResult accumulator
  result,      \* "none", "Ok" or "Err": what process returned
  panic,       \* the panic message, "" when none
  calls,       \* calls of the script's process entry point
  statusSets,  \* calls of JobResult::with_status
  holders,     \* the threads holding a GILGuard
  tpc,         \* ConcSpec: each thread's position
  top          \* ConcSpec: each thread's operation

procVars ==
  <<pc, contents, channel, job, oracle, dict, built, plan0, plan, nReports,
    lastReport, argRaised, jobResult, result, panic, calls, statusSets>>
concVars == <<tpc, top>>
vars == <<procVars, holders, concVars>>

Threads == 1..NumThreads

\* JobResult::new: no status yet, no message, no destination paths.
NewJobResult == [status |-> "Unknown", message |-> None, destination_paths |-> <<>>]

with_status(jr, status) == [jr EXCEPT !.status = status]
with_message(jr, msg) == [jr EXCEPT !.message = Some(msg)]
\* Vec::append: the paths are moved to the end of the result's paths.
with_destination_paths(jr, paths) ==
  [jr EXCEPT !.destination_paths = @ \o paths]

\* What the script's process can return.
Responses ==
  {[shape |-> "paths", paths |-> ps] :
     ps \in {<<>>, <<"p1", "p2">>, <<"p2", "p1">>}}
  \cup {[shape |-> "none", paths |-> <<>>], [shape |-> "other", paths |-> <<>>]}

\* What it can raise: with or without a traceback, and with a repr that
\* can itself raise (a __repr__ of the script's own exception class).
Frames == <<"frame1", "frame2">>
Exceptions ==
  {[name |-> "ValueError", tb |-> t, reprRaises |-> r] :
     t \in {None, Some(Frames)}, r \in BOOLEAN}

NoResponse == [shape |-> "none", paths |-> <<>>]
Returns(r) == [kind |-> "return", response |-> r, exc |-> NoError]
Raises(e) == [kind |-> "raise", response |-> NoResponse, exc |-> e]
Plans == {Returns(r) : r \in Responses} \cup {Raises(e) : e \in Exceptions}
NoPlan == [kind |-> "none", response |-> NoResponse, exc |-> NoError]

\* helpers::get_destination_paths.
get_destination_paths(response) ==
  IF response.shape = "paths" THEN Some(response.paths) ELSE None

\* py.eval("repr(error)").to_string()
Repr(error) == <<"repr", error.name>>
\* py.eval("traceback.format_tb(tb)").to_string()
FormatTb(tb) == <<"format_tb">> \o tb

\* The stacktrace with a fault: nothing stands in for a missing traceback.
StacktraceNoMarker(error) ==
  IF error.tb.some THEN FormatTb(error.tb.v) ELSE <<>>

Stacktrace(error) ==
  IF error.tb.some THEN FormatTb(error.tb.v)
  ELSE <<"Unknown python error, no stackstrace">>

\* format!("{}\n\nStacktrace:\n{}", error_msg, stacktrace)
ErrorMessage(error_msg, stacktrace) ==
  error_msg \o <<"\n\nStacktrace:\n">> \o stacktrace

\* The Ok arm with a fault: the destination paths are not attached.
OkArmDropsPaths(jr, response) == with_status(jr, "Completed")

\* The Ok arm of the match on call1's result.
OkArm(jr, response) ==
  LET destination_paths == get_destination_paths(response)
  IN with_status(
       IF destination_paths.some
       THEN with_destination_paths(jr, destination_paths.v)
       ELSE jr,
       "Completed")

\* The Err arm, once repr(error) has been evaluated.
ErrArm(jr, error) ==
  with_message(with_status(jr, "Error"),
               ErrorMessage(Repr(error), Stacktrace(error)))

\* The test with a fault: the error of build_parameters is ignored.
BuildFailedIgnored(res) == FALSE

\* if let Err(error) = self.build_parameters(...)
BuildFailed(res) == ~res.ok

\* The exit with a fault: the return is missing and process goes on.
MarshalErrorFallsThrough == "callback_handle"

\* return Err(MessageError::ProcessingError(result))
MarshalErrorExit == "returned"

\* ----------------------------------------------------- the progress handle
\* A percentage of the contract, and a value that is no u8.
Percentages == {100, 256}

\* The method with a fault: a failed publish is raised instead of returned.
PublishPropagates(sent) == IF sent THEN "true" ELSE "raise"

\* CallbackHandle::publish_job_progression's body: sent is whether the
\* framework's publish_job_progression returned Ok.
publish_job_progression(sent) == IF sent THEN "true" ELSE "false"

\* The method as the script calls it: the argument is extracted as a u8
\* first, and a value that is none raises OverflowError into the script.
ReportOutcome(value, sent) ==
  IF value \in 0..255 THEN publish_job_progression(sent) ELSE "raise"

ReportError == [name |-> "OverflowError", tb |-> Some(Frames), reprRaises |-> FALSE]
NoReport == [value |-> 0, sent |-> TRUE, outcome |-> "none"]


\* ------------------------------------------------------- process, by step
\* A panic unwinds the call: the GILGuard, if held, is dropped.
Panics(msg) ==
  /\ pc' = "panicked"
  /\ panic' = msg
  /\ holders' = {}

\* let contents = self.read_python_file();
ReadPythonFile ==
  /\ pc = "read_python_file"
  /\ \E c \in {"unreadable", "syntax_error", "valid"} :
       /\ contents' = c
       /\ IF c = "unreadable"
          THEN Panics("unable to open and read file")
          ELSE pc' = "acquire_gil" /\ UNCHANGED <<panic, holders>>
  /\ UNCHANGED <<channel, job, oracle, dict, built, plan0, plan, nReports,
                 lastReport, argRaised, jobResult, result, calls, statusSets,
                 concVars>>

\* let gil = Python::acquire_gil();
AcquireGil ==
  /\ pc = "acquire_gil"
  /\ holders = {}
  /\ holders' = {1}
  /\ pc' = "from_code"
  /\ UNCHANGED <<contents, channel, job, oracle, dict, built, plan0, plan,
                 nReports, lastReport, argRaised, jobResult, result, panic,
                 calls, statusSets, concVars>>

\* py.import("traceback"); PyModule::from_code(...).expect(...)
FromCode ==
  /\ pc = "from_code"
  /\ IF contents = "valid"
     THEN pc' = "build_parameters" /\ UNCHANGED <<panic, holders>>
     ELSE Panics("unable to create the python module")
  /\ UNCHANGED <<contents, channel, job, oracle, dict, built, plan0, plan,
                 nReports, lastReport, argRaised, jobResult, result, calls,
                 statusSets, concVars>>

\* let list_of_parameters = PyDict::new(py);
\* if let Err(error) = self.build_parameters(job, py, list_of_parameters)
BuildParameters ==
  /\ pc = "build_parameters"
  /\ \E o \in Oracles(job) :
       LET res == build_parameters(job, o.resolved, o.failAt, EmptyDict)
       IN /\ oracle' = o
          /\ dict' = res.dict
          /\ built' = IF res.ok THEN "Ok" ELSE "Err"
          /\ pc' = IF BuildFailed(res) THEN "marshal_error" ELSE "callback_handle"
  /\ UNCHANGED <<contents, channel, job, plan0, plan, nReports, lastReport,
                 argRaised, jobResult, result, panic, calls, statusSets,
                 holders, concVars>>

\* The body of that if: repr(error) becomes the message, and process returns.
MarshalError ==
  /\ pc = "marshal_error"
  /\ jobResult' = with_message(with_status(jobResult, "Error"), Repr(EngineError))
  /\ statusSets' = statusSets + 1
  /\ result' = "Err"
  /\ pc' = MarshalErrorExit
  /\ holders' = {}
  /\ UNCHANGED <<contents, channel, job, oracle, dict, built, plan0, plan,
                 nReports, lastReport, argRaised, panic, calls, concVars>>

\* CallbackHandle { channel: channel.unwrap().clone(), job: job.clone() }
NewCallbackHandle ==
  /\ pc = "callback_handle"
  /\ IF channel.some
     THEN pc' = "call1" /\ UNCHANGED <<panic, holders>>
     ELSE Panics("called Option::unwrap() on a None value")
  /\ UNCHANGED <<contents, channel, job, oracle, dict, built, plan0, plan,
                 nReports, lastReport, argRaised, jobResult, result, calls,
                 statusSets, concVars>>

\* python_module.call1("process", (callback_handle, list_of_parameters)):
\* the script's process starts to run.
Call1 ==
  /\ pc = "call1"
  /\ calls' = calls + 1
  /\ \E s \in Plans : plan0' = s /\ plan' = s
  /\ pc' = "in_script"
  /\ UNCHANGED <<contents, channel, job, oracle, dict, built, nReports,
                 lastReport, argRaised, jobResult, result, panic, statusSets,
                 holders, concVars>>

\* The script calls the handle's publish_job_progression. What the call
\* raises, the script catches or lets end its process.
PublishJobProgression ==
  /\ pc = "in_script"
  /\ plan = plan0
  /\ nReports < MaxReports
  /\ nReports' = nReports + 1
  /\ \E value \in Percentages, sent \in BOOLEAN, caught \in BOOLEAN :
       LET outcome == ReportOutcome(value, sent)
       IN /\ lastReport' = [value |-> value, sent |-> sent, outcome |-> outcome]
          /\ argRaised' = (argRaised \/ value \notin 0..255)
          /\ plan' = IF outcome = "raise" /\ ~caught
                     THEN Raises(ReportError) ELSE plan
  /\ UNCHANGED <<pc, contents, channel, job, oracle, dict, built, plan0,
                 jobResult, result, panic, calls, statusSets, holders,
                 concVars>>

\* Ok(response) => ... Ok(job_result.with_status(JobStatus::Completed))
ScriptReturns ==
  /\ pc = "in_script"
  /\ plan.kind = "return"
  /\ jobResult' = OkArm(jobResult, plan.response)
  /\ statusSets' = statusSets + 1
  /\ result' = "Ok"
  /\ pc' = "returned"
  /\ holders' = {}
  /\ UNCHANGED <<contents, channel, job, oracle, dict, built, plan0, plan,
                 nReports, lastReport, argRaised, panic, calls, concVars>>

\* Err(error) => ... Err(MessageError::ProcessingError(result)); the
\* evaluation of repr(error) is expected to succeed.
ScriptRaises ==
  /\ pc = "in_script"
  /\ plan.kind = "raise"
  /\ IF plan.exc.reprRaises
     THEN /\ Panics("Unknown python error, unable to get the error message")
          /\ UNCHANGED <<jobResult, statusSets, result>>
     ELSE /\ jobResult' = ErrArm(jobResult, plan.exc)
          /\ statusSets' = statusSets + 1
          /\ result' = "Err"
          /\ pc' = "returned"
          /\ holders' = {}
          /\ UNCHANGED panic
  /\ UNCHANGED <<contents, channel, job, oracle, dict, built, plan0, plan,
                 nReports, lastReport, argRaised, calls, concVars>>

\* process is exercised on jobs whose parameters carry a supplied value and
\* no default; MarshalSpec covers value/default resolution on every job.
ProcessParams == {p \in ParameterSet : p.value.some /\ ~p.default.some}
ProcessJobs == UNION {[1..n -> ProcessParams] : n \in 0..MaxParams}

Channels == {None, Some(<<"channel">>)}

IdleThreads ==
  /\ tpc = [t \in Threads |-> "idle"]
  /\ top = [t \in Threads |-> "none"]

InitCall ==
  /\ contents = "unread"
  /\ oracle = NoOracle
  /\ dict = EmptyDict
  /\ built = "none"
  /\ plan0 = NoPlan
  /\ plan = NoPlan
  /\ nReports = 0
  /\ lastReport = NoReport
  /\ argRaised = FALSE
  /\ jobResult = NewJobResult
  /\ result = "none"
  /\ panic = ""
  /\ calls = 0
  /\ statusSets = 0

Init ==
  /\ InitCall
  /\ pc = "read_python_file"
  /\ channel \in Channels
  /\ job \in ProcessJobs
  /\ holders = {}
  /\ IdleThreads

Next ==
  \/ ReadPythonFile
  \/ AcquireGil
  \/ FromCode
  \/ BuildParameters
  \/ MarshalError
  \/ NewCallbackHandle
  \/ Call1
  \/ PublishJobProgression
  \/ ScriptReturns
  \/ ScriptRaises

Spec == Init /\ [][Next]_vars

\* ------------------------------------------- build_parameters on every job
MarshalInit ==
  /\ InitCall
  /\ pc = "build_parameters"
  /\ channel \in Channels
  /\ job \in Jobs
  /\ holders = {1}
  /\ IdleThreads

MarshalNext == BuildParameters

MarshalSpec == MarshalInit /\ [][MarshalNext]_vars


\* ------------------------------------------------ concurrent calls, the GIL
\* Each thread calls process, get_parameters or a metadata reader
\* (get_string_from_module). Between acquire_gil and its return a call is at
\* one of: from_code (the module's top-level code runs), build_parameters
\* (process only; native code), call (the script's function runs), convert
\* (the result is converted: extract, to_string, eval of repr).
Ops == {"process", "get_string_from_module", "get_parameters"}

\* The steps during which the interpreter runs Python code. Its evaluation
\* loop gives the lock up to a thread that waits for it and takes it back
\* later; native code keeps the lock.
PythonSteps == {"from_code", "call", "convert"}

Suspended(t) == tpc[t] \in PythonSteps /\ t \notin holders

Waiting(t) == tpc[t] = "acquire_gil" \/ Suspended(t)

TCall(t) ==
  /\ tpc[t] = "idle"
  /\ \E op \in Ops : top' = [top EXCEPT ![t] = op]
  /\ tpc' = [tpc EXCEPT ![t] = "read_python_file"]
  /\ UNCHANGED <<procVars, holders>>

\* read_python_file: before the lock is asked for.
TReadPythonFile(t) ==
  /\ tpc[t] = "read_python_file"
  /\ \E ok \in BOOLEAN :
       tpc' = [tpc EXCEPT ![t] = IF ok THEN "acquire_gil" ELSE "panicked"]
  /\ UNCHANGED <<procVars, holders, top>>

\* The acquisition with a fault: it does not wait for the lock to be free.
TAcquireGilNonBlocking(t) ==
  /\ tpc[t] = "acquire_gil"
  /\ holders' = holders \cup {t}
  /\ tpc' = [tpc EXCEPT ![t] = "from_code"]
  /\ UNCHANGED <<procVars, top>>

\* Python::acquire_gil(): blocks while another thread holds the lock.
TAcquireGil(t) ==
  /\ tpc[t] = "acquire_gil"
  /\ holders = {}
  /\ holders' = {t}
  /\ tpc' = [tpc EXCEPT ![t] = "from_code"]
  /\ UNCHANGED <<procVars, top>>

\* PyModule::from_code(...).expect(...)
TFromCode(t) ==
  /\ tpc[t] = "from_code"
  /\ t \in holders
  /\ \E ok \in BOOLEAN :
       IF ok
       THEN /\ tpc' = [tpc EXCEPT ![t] =
                         IF top[t] = "process" THEN "build_parameters" ELSE "call"]
            /\ UNCHANGED holders
       ELSE /\ tpc' = [tpc EXCEPT ![t] = "panicked"]
            /\ holders' = holders \ {t}
  /\ UNCHANGED <<procVars, top>>

\* process: build_parameters, then the error return, the handle or the
\* panic of channel.unwrap().
TBuildParameters(t) ==
  /\ tpc[t] = "build_parameters"
  /\ t \in holders
  /\ \E next \in {"call", "convert", "panicked"} :
       /\ tpc' = [tpc EXCEPT ![t] = next]
       /\ holders' = IF next = "panicked" THEN holders \ {t} ELSE holders
  /\ UNCHANGED <<procVars, top>>

\* call1("process", ...) / call0(method): the script's function has run.
TScript(t) ==
  /\ tpc[t] = "call"
  /\ t \in holders
  /\ tpc' = [tpc EXCEPT ![t] = "convert"]
  /\ UNCHANGED <<procVars, holders, top>>

\* The call returns or panics: the GILGuard goes out of scope.
TReturn(t) ==
  /\ tpc[t] = "convert"
  /\ t \in holders
  /\ \E next \in {"idle", "panicked"} : tpc' = [tpc EXCEPT ![t] = next]
  /\ top' = [top EXCEPT ![t] = "none"]
  /\ holders' = holders \ {t}
  /\ UNCHANGED procVars

\* The interpreter's evaluation loop releases the lock on request.
TYield(t) ==
  /\ t \in holders
  /\ tpc[t] \in PythonSteps
  /\ \E u \in Threads \ {t} : Waiting(u)
  /\ holders' = holders \ {t}
  /\ UNCHANGED <<procVars, concVars>>

\* ... and takes it back when it is free.
TResume(t) ==
  /\ Suspended(t)
  /\ holders = {}
  /\ holders' = {t}
  /\ UNCHANGED <<procVars, concVars>>

ConcInit ==
  /\ InitCall
  /\ pc = "idle"
  /\ channel = None
  /\ job = <<>>
  /\ holders = {}
  /\ IdleThreads

ConcNext ==
  \E t \in Threads :
    \/ TCall(t)
    \/ TReadPythonFile(t)
    \/ TAcquireGil(t)
    \/ TFromCode(t)
    \/ TBuildParameters(t)
    \/ TScript(t)
    \/ TReturn(t)
    \/ TYield(t)
    \/ TResume(t)

ConcSpec == ConcInit /\ [][ConcNext]_vars


\* ------------------------------------------------------------------ claims
Terminal == {"Completed", "Error"}

\* s occurs in m as a run of consecutive tokens.
Infix(s, m) ==
  \E k \in 0..(Len(m) - Len(s)) : \A j \in 1..Len(s) : m[k + j] = s[j]

\* Parameter i of the job is the last one carrying its identifier.
LastOfId(i) == \A j \in (i + 1)..Len(job) : job[j].id # job[i].id

HasBoth(p) == p.value.some /\ p.default.some
HasNeither(p) == ~p.value.some /\ ~p.default.some

\* C1: every call of process returns a JobResult with a terminal status and
\* never panics, whatever the module source (a source that does not compile
\* included), the channel argument and the script's behaviour; only an
\* unreadable source file, a misconfiguration of the worker, may abort.
C1_ProcessAlwaysReturnsJobResult ==
  /\ pc = "panicked" => panic = "unable to open and read file"
  /\ pc = "returned" => result \in {"Ok", "Err"} /\ jobResult.status \in Terminal

\* C2: when build_parameters fails on an insertion, process goes directly to
\* the Error outcome, an Err whose JobResult has status Error and the
\* engine's repr of the error as message, and the script's process entry
\* point is not called in that invocation.
C2_MarshalFailureSkipsScript ==
  built = "Err" =>
    /\ calls = 0
    /\ plan = NoPlan
    /\ pc \in {"marshal_error", "returned"}
    /\ pc = "returned" =>
         /\ result = "Err"
         /\ jobResult.status = "Error"
         /\ jobResult.message = Some(<<"repr", EngineError.name>>)
         /\ jobResult.destination_paths = <<>>

\* process returned an Error after an insertion failed although earlier
\* parameters had been inserted.
C2_Witness ==
  /\ pc = "returned"
  /\ built = "Err"
  /\ dict # EmptyDict
  /\ jobResult.status = "Error"

\* C3: after build_parameters succeeded, a parameter with both a value and a
\* default is marshalled from its value, never from its default: the entry
\* under its identifier (when no later parameter carries the identifier) is
\* the Python form of the value, and for a Credential whose resolution
\* succeeded, the secret of the key the value names.
C3_ValuePrecedence ==
  built = "Ok" =>
    \A i \in 1..Len(job) :
      LET p == job[i]
      IN HasBoth(p) /\ LastOfId(i) =>
           /\ p.kind = "ArrayOfStringsParam" =>
                dict[p.id] = Some(<<"list">> \o p.value.v)
           /\ p.kind = "BooleanParam" => dict[p.id] = Some(<<"bool">> \o p.value.v)
           /\ p.kind = "IntegerParam" => dict[p.id] = Some(<<"int">> \o p.value.v)
           /\ p.kind = "StringParam" => dict[p.id] = Some(<<"str">> \o p.value.v)
           /\ p.kind = "CredentialParam" /\ oracle.resolved[i] =>
                dict[p.id] = Some(<<"str", "secret">> \o p.value.v)
           /\ p.kind # "RequirementParam"
                /\ (p.kind = "CredentialParam" => oracle.resolved[i]) =>
                /\ dict[p.id].some
                /\ Infix(p.value.v, dict[p.id].v)
                /\ ~Infix(p.default.v, dict[p.id].v)

\* A String parameter with value "v" and default "d" was marshalled as "v",
\* after another parameter.
C3_Witness ==
  /\ built = "Ok"
  /\ Len(job) = 2
  /\ job[2].kind = "StringParam"
  /\ HasBoth(job[2])
  /\ dict[job[2].id] = Some(<<"str", "v">>)

\* C4: a parameter with neither value nor default contributes no entry, no
\* null entry either, and never makes build_parameters fail; a Requirement
\* parameter contributes no entry whatever it carries. So every entry comes
\* from a parameter of another kind that carries a value or a default, and
\* build_parameters fails only at such a parameter.
C4_EmptyAndRequirementOmitted ==
  built # "none" =>
    /\ \A k \in Ids :
         dict[k].some =>
           /\ dict[k].v # <<"NoneType">>
           /\ \E i \in 1..Len(job) :
                /\ job[i].id = k
                /\ job[i].kind # "RequirementParam"
                /\ ~HasNeither(job[i])
    /\ built = "Err" =>
         /\ oracle.failAt \in 1..Len(job)
         /\ job[oracle.failAt].kind # "RequirementParam"
         /\ ~HasNeither(job[oracle.failAt])
    /\ (\A i \in 1..Len(job) :
          job[i].kind = "RequirementParam" \/ HasNeither(job[i])) =>
         built = "Ok" /\ dict = EmptyDict

\* build_parameters succeeded with an empty structure on a Requirement that
\* carries a value and a String with neither value nor default.
C4_Witness ==
  /\ built = "Ok"
  /\ Len(job) = 2
  /\ job[1].kind = "RequirementParam" /\ job[1].value.some
  /\ job[2].kind = "StringParam" /\ HasNeither(job[2])
  /\ dict = EmptyDict

\* The credential parameters whose resolution failed.
FailedCredentials ==
  {i \in 1..Len(job) : AsksCredential(job[i]) /\ ~oracle.resolved[i]}

\* The job without them, and the environment's answers renumbered.
RECURSIVE Without(_, _)
Without(params, drop) ==
  IF params = <<>> THEN <<>>
  ELSE LET n == Len(params)
           front == Without(SubSeq(params, 1, n - 1), drop)
       IN IF n \in drop THEN front ELSE Append(front, params[n])

Renumbered(i, drop) == Cardinality({j \in 1..i : j \notin drop})

\* C5: a Credential parameter whose resolution fails is left out and
\* build_parameters goes on: structure and result are those of the job
\* without the parameter, the failure alone never makes build_parameters
\* fail, and process still calls the script's entry point.
C5_FailedCredentialOmitted ==
  built # "none" =>
    LET drop == FailedCredentials
        rest == Without(job, drop)
        alone == build_parameters(
                   rest, [i \in 1..Len(rest) |-> TRUE],
                   IF oracle.failAt = 0 \/ oracle.failAt \in drop THEN 0
                   ELSE Renumbered(oracle.failAt, drop),
                   EmptyDict)
    IN /\ dict = alone.dict
       /\ (built = "Ok") = alone.ok
       /\ oracle.failAt \notin drop
       /\ oracle.failAt = 0 => built = "Ok"
       /\ \A k \in Ids :
            (\A i \in 1..Len(job) : job[i].id = k => i \in drop) => ~dict[k].some
       /\ drop # {} /\ built = "Ok" /\ pc = "returned" => calls = 1

\* process returned after the script ran, on a job with a credential that
\* could not be resolved and another parameter that was marshalled.
C5_Witness ==
  /\ pc = "returned"
  /\ calls = 1
  /\ FailedCredentials # {}
  /\ dict # EmptyDict
  /\ \E i \in FailedCredentials : ~dict[job[i].id].some

\* C6: when the script's process raised, what process returns is the Error
\* outcome: an Err whose JobResult has status Error and a message holding
\* the exception's repr and then the formatted traceback or, without a
\* traceback, the fixed marker and no frame text; never Completed.
C6_ExceptionCaptured ==
  plan.kind = "raise" =>
    /\ jobResult.status # "Completed"
    /\ result # "Ok"
    /\ pc = "returned" =>
         /\ result = "Err"
         /\ jobResult.status = "Error"
         /\ jobResult.message.some
         /\ Infix(<<"repr", plan.exc.name>>, jobResult.message.v)
         /\ IF plan.exc.tb.some
            THEN Infix(<<"format_tb">> \o plan.exc.tb.v, jobResult.message.v)
            ELSE /\ Infix(<<"Unknown python error, no stackstrace">>,
                          jobResult.message.v)
                 /\ ~Infix(<<"format_tb">>, jobResult.message.v)

\* process returned the Error of an exception that had no traceback.
C6_Witness ==
  /\ pc = "returned"
  /\ plan.kind = "raise"
  /\ ~plan.exc.tb.some
  /\ jobResult.status = "Error"

\* C7: when the script's process returned normally, process returns Ok with
\* status Completed; the destination paths are the returned sequence of path
\* strings in its order, and there are none when the value is absent or not
\* path-shaped.
C7_NormalReturnCompleted ==
  plan.kind = "return" =>
    /\ pc # "panicked"
    /\ jobResult.status # "Error"
    /\ pc = "returned" =>
         /\ result = "Ok"
         /\ jobResult.status = "Completed"
         /\ jobResult.destination_paths =
              IF plan.response.shape = "paths" THEN plan.response.paths ELSE <<>>

\* process returned Completed with the two paths in the script's order.
C7_Witness ==
  /\ pc = "returned"
  /\ plan.kind = "return"
  /\ jobResult.destination_paths = <<"p2", "p1">>
  /\ jobResult.status = "Completed"

\* C8: a progress report with a percentage of the contract (0 to 100) never
\* raises into the script: it gives true, or false when the publish on the
\* channel failed; and whatever reports the script made, the job ends as it
\* would have without them.
C8_ProgressNeverAborts ==
  /\ lastReport.outcome # "none" /\ lastReport.value \in 0..100 =>
       lastReport.outcome = (IF lastReport.sent THEN "true" ELSE "false")
  /\ ~argRaised =>
       /\ plan = plan0
       /\ pc = "returned" =>
            /\ plan0.kind = "return" =>
                 result = "Ok" /\ jobResult = OkArm(NewJobResult, plan0.response)
            /\ plan0.kind = "raise" =>
                 result = "Err" /\ jobResult = ErrArm(NewJobResult, plan0.exc)
       /\ pc = "panicked" /\ calls = 1 => plan0.kind = "raise"

\* process returned Completed although the script's last report could not
\* be published.
C8_Witness ==
  /\ pc = "returned"
  /\ nReports = MaxReports
  /\ ~lastReport.sent
  /\ lastReport.outcome = "false"
  /\ jobResult.status = "Completed"

\* C9: the steps of process run in order and once: the entry point is
\* called at most once and only after the module was loaded and marshalling
\* succeeded, marshalling only after the load, and the status of the
\* JobResult is set at most once, exactly when process returns, to
\* Completed or Error.
C9_StepsInOrderOnce ==
  /\ calls \in {0, 1}
  /\ statusSets \in {0, 1}
  /\ built # "none" => contents = "valid" /\ pc # "from_code"
  /\ calls = 1 => built = "Ok" /\ channel.some
  /\ pc \in {"read_python_file", "acquire_gil", "from_code", "build_parameters",
             "marshal_error", "callback_handle", "call1"} => calls = 0
  /\ (pc = "returned") = (statusSets = 1)
  /\ statusSets = 0 => jobResult = NewJobResult
  /\ statusSets = 1 => jobResult.status \in Terminal
  /\ jobResult.status = "Completed" => calls = 1 /\ result = "Ok"
  /\ result = "Ok" => jobResult.status = "Completed"
  /\ result = "Err" => jobResult.status = "Error"

\* process returned after one call of the entry point during which the
\* script reported progress.
C9_Witness ==
  /\ pc = "returned"
  /\ calls = 1
  /\ statusSets = 1
  /\ nReports > 0

\* The calls between their module load and their return.
InInterpreter ==
  {t \in Threads : tpc[t] \in {"from_code", "build_parameters", "call", "convert"}}

====
